---- MODULE Spec2Model ----
(***************************************************************************)
(* Model of the gRPC broadcast chat server (src/app/server.py):            *)
(* ChatService.clients, ChatService.lock, and for every ChatStream call    *)
(* the reader thread (read_incoming) and the response generator (the       *)
(* write side), and of the chat client (src/client.py): ChatClient.connect, *)
(* generate_outgoing and input_loop.  Strings are sequences of             *)
(* one-character strings so that strip / lower / split are computed, not   *)
(* assumed.                                                                *)
(***************************************************************************)
EXTENDS Integers, Sequences, FiniteSets, TLC

\* ---------------------------------------------------------------- bounds
MaxFrames   == 1        \* text frames (after registration) accepted overall
MaxFaults   == 1        \* exceptions raised overall (by a put or by a producer)
MaxTyped    == 2        \* lines the user of the client types

\* the ChatStream calls (connections) of the model
Sessions == {1, 2}

\* ---------------------------------------------------------------- strings
WhiteSpace == {" "}

RECURSIVE LStrip(_)
LStrip(s) == IF s # <<>> /\ Head(s) \in WhiteSpace THEN LStrip(Tail(s)) ELSE s

RECURSIVE RStrip(_)
RStrip(s) ==
    IF s # <<>> /\ s[Len(s)] \in WhiteSpace
    THEN RStrip(SubSeq(s, 1, Len(s) - 1))
    ELSE s

\* str.strip()
Strip(s) == RStrip(LStrip(s))

LowerChar(ch) == CASE ch = "T" -> "t" [] ch = "H" -> "h" [] OTHER -> ch

\* str.lower()
Lower(s) == [i \in 1 .. Len(s) |-> LowerChar(s[i])]

RECURSIVE TakeWord(_)
TakeWord(s) ==
    IF s = <<>> \/ Head(s) \in WhiteSpace THEN <<>>
    ELSE <<Head(s)>> \o TakeWord(Tail(s))

\* str.split()[0]
FirstToken(s) == TakeWord(LStrip(s))

\* str.startswith('!')
StartsWithBang(s) == s # <<>> /\ Head(s) = "!"

\* ---------------------------------------------------------------- inputs
\* request.username values a client may send
RawNames == { <<>>, <<"a">>, <<" ", "a", " ">> }

\* request.text values a client may send
RawTexts == { <<"h", "i">>,
              <<" ", "!", "T", " ", "x">>,
              <<"!", "z">> }

\* keys of SERVER_COMMANDS (abbreviated: "!t" for a clock command, "!h" for help)
SERVER_COMMANDS == { <<"!", "t">>, <<"!", "h">> }

\* id(context) of each ChatStream call: distinct addresses of live objects
CtxId(c) == 1000 * c + 8 * ((c + 1) \div 2)

IdModulus == 1000

\* f"User_{id(context) % 1000}"
FallbackName(c) == <<"User_" \o ToString(CtxId(c) % IdModulus)>>

NoName == <<>>          \* username = None (falsy, like "")
SERVER == <<"SERVER">>

Names == ({ Strip(r) : r \in RawNames } \ {NoName}) \cup { FallbackName(c) : c \in Sessions }

\* ---------------------------------------------------------------- state
VARIABLES
    clients,        \* self.clients as an insertion-ordered list of <<name, session>>
    lock,           \* self.lock: 0 when free, else the session whose reader holds it
    username,       \* read_incoming's username per session (NoName = None)
    rpc,            \* position of each reader thread
    wpc,            \* position of each response generator (write side)
    active,         \* context.is_active() per session
    queue,          \* outgoing_queue per session
    bcMsg,          \* _broadcast in progress: the message built
    bcExclude,      \* _broadcast in progress: exclude (NoName = None)
    bcTodo,         \* _broadcast in progress: rest of list(self.clients.items())
    bcCont,         \* where the reader continues after _broadcast returns
    bcGot,          \* history: sessions whose queue got the message in this call
    bcFailed,       \* history: sessions whose queue.put raised in this call
    nFaults,        \* history: exceptions raised so far
    errNotices,     \* history: command error notices broadcast per session
    nBc,            \* history: _broadcast calls that have entered `with self.lock`
    bcId,           \* history: the rank of the call in progress among them (0: none)
    qid,            \* history: per queue, the tag of each message (the rank of its
                    \* call where ranks are recorded, else 0)
    lastSent,       \* history: rank of the message a write side yielded last (0: none)
    bcFrame,        \* history: the request.text whose handling made this call
    nFrames,        \* history: text frames accepted so far
    joinCount,      \* history: join broadcasts issued per session
    leaveCount,     \* history: leave broadcasts issued per session
    popCount,       \* history: clients.pop calls executed per session
    lastReg,        \* history: last session that registered under each name
    polledAfterRead,\* history: a poll was started after the reader thread ended
    gpc,            \* client: position of the generator generate_outgoing
    ipc,            \* client: position of input_loop
    connected,      \* client: self.connected (threading.Event) is set
    running,        \* client: self.running
    outq,           \* client: self.outgoing_queue
    sent,           \* client: the frames generate_outgoing has yielded, in order
    nTyped,         \* history: lines read by input() so far
    kpc,            \* connect: position in ChatClient.connect
    attempt,        \* connect: the loop variable of `for attempt in range(5)`
    autoRec,        \* connect: config['auto_reconnect']
    recDelay,       \* connect: config['reconnect_delay']
    kresult,        \* connect: the value returned ("none" before the return)
    nTried,         \* history: attempts made (channels created)
    slept           \* history: the arguments of the time.sleep calls, in order

\* the state of a call of ChatClient.connect
connVars == << kpc, attempt, autoRec, recDelay, kresult, nTried, slept >>

\* the state of ChatClient (src/client.py)
clientVars == << gpc, ipc, connected, running, outq, sent, nTyped, connVars >>

\* the state of ChatService and of its ChatStream calls (src/app/server.py)
serverVars ==
    << clients, lock, username, rpc, wpc, active, queue, bcMsg, bcExclude,
       bcTodo, bcCont, bcGot, bcFailed, nFaults, errNotices, nBc, bcId, qid,
       lastSent, bcFrame, nFrames, joinCount, leaveCount, popCount, lastReg,
       polledAfterRead >>

vars == << serverVars, clientVars >>

\* pb2.ChatMessage(username=sender, text=text, ...); the text is kept structured:
\* kind says which f-string built it, who/text/result are its interpolated parts
Msg(sender, kind, who, text, result) ==
    [sender |-> sender, kind |-> kind, who |-> who, text |-> text, result |-> result]

NoMsg == Msg(<<>>, "none", <<>>, <<>>, <<>>)

\* ---------------------------------------------------------------- registry
RECURSIVE Has(_, _)
Has(reg, name) ==
    IF reg = <<>> THEN FALSE
    ELSE Head(reg)[1] = name \/ Has(Tail(reg), name)

\* self.clients[name] (0 when absent)
RECURSIVE Get(_, _)
Get(reg, name) ==
    IF reg = <<>> THEN 0
    ELSE IF Head(reg)[1] = name THEN Head(reg)[2] ELSE Get(Tail(reg), name)

RECURSIVE Replace(_, _, _)
Replace(reg, name, h) ==
    IF reg = <<>> THEN <<>>
    ELSE IF Head(reg)[1] = name
         THEN << <<name, h>> >> \o Tail(reg)
         ELSE << Head(reg) >> \o Replace(Tail(reg), name, h)

\* mutation of Put: a new entry appended even when the name is present
PutAppend(reg, name, h) == Append(reg, <<name, h>>)

\* self.clients[name] = handle: overwrite in place, else append
Put(reg, name, h) ==
    IF Has(reg, name) THEN Replace(reg, name, h) ELSE Append(reg, <<name, h>>)

\* mutation of Pop: the oldest entry removed, whatever its name (popitem)
PopOldest(reg, name) == IF reg = <<>> THEN <<>> ELSE Tail(reg)

\* mutation of Pop: the removal forgotten
PopNothing(reg, name) == reg

\* self.clients.pop(name, None)
RECURSIVE Pop(_, _)
Pop(reg, name) ==
    IF reg = <<>> THEN <<>>
    ELSE IF Head(reg)[1] = name THEN Tail(reg)
         ELSE << Head(reg) >> \o Pop(Tail(reg), name)

\* list(self.clients.items())
Items(reg) == reg

RegNames(reg) == { reg[i][1] : i \in 1 .. Len(reg) }

\* ---------------------------------------------------------------- init
\* connect has not been called
ConnIdle ==
    /\ kpc = "none"
    /\ attempt = 0
    /\ autoRec = FALSE
    /\ recDelay = 0
    /\ kresult = "none"
    /\ nTried = 0
    /\ slept = <<>>

\* no ChatClient of the model has been started
ClientIdle ==
    /\ gpc = "none"
    /\ ipc = "none"
    /\ connected = FALSE
    /\ running = FALSE
    /\ outq = <<>>
    /\ sent = <<>>
    /\ nTyped = 0

\* ChatService.__init__, no call of ChatStream yet
ServerInit ==
    /\ clients = <<>>
    /\ lock = 0
    /\ username = [c \in Sessions |-> NoName]
    /\ rpc = [c \in Sessions |-> "none"]
    /\ wpc = [c \in Sessions |-> "none"]
    /\ active = [c \in Sessions |-> FALSE]
    /\ queue = [c \in Sessions |-> <<>>]
    /\ bcMsg = [c \in Sessions |-> NoMsg]
    /\ bcExclude = [c \in Sessions |-> NoName]
    /\ bcTodo = [c \in Sessions |-> <<>>]
    /\ bcCont = [c \in Sessions |-> "none"]
    /\ bcGot = [c \in Sessions |-> <<>>]
    /\ bcFailed = [c \in Sessions |-> <<>>]
    /\ nFaults = 0
    /\ errNotices = [c \in Sessions |-> 0]
    /\ nBc = 0
    /\ bcId = [c \in Sessions |-> 0]
    /\ qid = [c \in Sessions |-> <<>>]
    /\ lastSent = [c \in Sessions |-> 0]
    /\ bcFrame = [c \in Sessions |-> <<>>]
    /\ nFrames = 0
    /\ joinCount = [c \in Sessions |-> 0]
    /\ leaveCount = [c \in Sessions |-> 0]
    /\ popCount = [c \in Sessions |-> 0]
    /\ lastReg = [n \in Names |-> 0]
    /\ polledAfterRead = [c \in Sessions |-> FALSE]

Init == ServerInit /\ ClientIdle /\ ConnIdle

\* ---------------------------------------------------------------- helpers
\* request.username.strip() or f"User_{id(context) % 1000}"
RegName(raw, c) == IF Strip(raw) # <<>> THEN Strip(raw) ELSE FallbackName(c)

\* mutation of Excluded: the exclusion test forgotten
ExcludedNever(exclude, name) == FALSE

\* `if exclude and user_name == exclude: continue`
Excluded(exclude, name) == exclude # NoName /\ name = exclude

\* mutation of TeardownNeeded: the teardown run without the test of username
TeardownAlways(c) == TRUE

\* mutation of TeardownNeeded: the teardown skipped
TeardownNever(c) == FALSE

\* `if username:` in the finally block of read_incoming
TeardownNeeded(c) == username[c] # NoName

\* mutation of IsFirstFrame: every frame taken for a registration frame
IsFirstFrameAlways(c) == TRUE

\* `if not username:` at the head of the loop body
IsFirstFrame(c) == username[c] = NoName

\* mutation of StillActive: the loop condition always true (`while True:`)
StillActiveAlways(c) == TRUE

\* context.is_active()
StillActive(c) == active[c]

\* mutation of CanAcquire: the map touched without waiting for the lock
CanAcquireAlways(c) == TRUE

\* threading.Lock.acquire(): blocks until the lock is free
CanAcquire(c) == lock = 0

\* the reader calls self._broadcast(...): the message is built, then the lock
\* is requested; `cont` is where the reader goes on after the call returns
CallBroadcast(c, msg, exclude, cont) ==
    /\ bcMsg' = [bcMsg EXCEPT ![c] = msg]
    /\ bcExclude' = [bcExclude EXCEPT ![c] = exclude]
    /\ bcCont' = [bcCont EXCEPT ![c] = cont]
    /\ rpc' = [rpc EXCEPT ![c] = "bc_acq"]

\* what SERVER_COMMANDS[command]() may do: return its string ("ok") or raise
ProducerOutcomes == {"ok", "raise"}

\* command = text.lower().split()[0]
CommandToken(text) == FirstToken(Lower(text))

\* _handle_command(text, username): the message it broadcasts
CommandMsg(text, name, outcome) ==
    LET command == CommandToken(text) IN
    IF command \in SERVER_COMMANDS
    THEN IF outcome = "ok"
         THEN Msg(SERVER, "cmd", name, text, command)
         ELSE Msg(SERVER, "cmderr", <<>>, <<>>, <<>>)
    ELSE Msg(SERVER, "unknown", <<>>, command, <<>>)

\* mutation of CommandExclude: the sender excluded from every command reply
CommandExcludeSender(text, name) == name

\* _handle_command(text, username): the exclude it passes
CommandExclude(text, name) ==
    IF CommandToken(text) \in SERVER_COMMANDS THEN NoName ELSE name

\* lines 75-80: the message for a frame of a registered session
FrameMsg(raw, name, outcome) ==
    LET text == Strip(raw) IN
    IF StartsWithBang(text) THEN CommandMsg(text, name, outcome)
    ELSE Msg(name, "chat", name, text, <<>>)

\* lines 75-80: the exclude for a frame of a registered session
FrameExclude(raw, name) ==
    LET text == Strip(raw) IN
    IF StartsWithBang(text) THEN CommandExclude(text, name) ELSE name

\* ---------------------------------------------------------------- actions
\* a client opens ChatStream: queue created, reader thread started, the
\* response generator starts (sessions are opened in the order of their index)
Connect(c) ==
    /\ rpc[c] = "none"
    /\ IF c = 1 THEN TRUE ELSE rpc[c - 1] # "none"
    /\ rpc' = [rpc EXCEPT ![c] = "recv"]
    /\ wpc' = [wpc EXCEPT ![c] = "check"]
    /\ active' = [active EXCEPT ![c] = TRUE]
    /\ UNCHANGED << clients, lock, username, queue, bcMsg, bcExclude, bcTodo,
                    bcCont, bcGot, bcFrame, nFrames, joinCount, leaveCount,
                    popCount, lastReg, polledAfterRead, bcFailed, nFaults,
                    errNotices, nBc, bcId, qid, lastSent, clientVars >>

\* the RPC ends (client cancels or disconnects, server stops)
Deactivate(c) ==
    /\ rpc[c] # "none"
    /\ active[c]
    /\ active' = [active EXCEPT ![c] = FALSE]
    /\ UNCHANGED << clients, lock, username, rpc, wpc, queue, bcMsg, bcExclude,
                    bcTodo, bcCont, bcGot, bcFrame, nFrames, joinCount, leaveCount,
                    popCount, lastReg, polledAfterRead, bcFailed, nFaults,
                    errNotices, nBc, bcId, qid, lastSent, clientVars >>

\* first frame: `if not username:` branch up to `with self.lock`
RecvRegister(c, raw) ==
    /\ rpc[c] = "recv"
    /\ active[c]
    /\ IsFirstFrame(c)
    /\ username' = [username EXCEPT ![c] = RegName(raw, c)]
    /\ rpc' = [rpc EXCEPT ![c] = "reg"]
    /\ UNCHANGED << clients, lock, wpc, active, queue, bcMsg, bcExclude, bcTodo,
                    bcCont, bcGot, bcFrame, nFrames, joinCount, leaveCount,
                    popCount, lastReg, polledAfterRead, bcFailed, nFaults,
                    errNotices, nBc, bcId, qid, lastSent, clientVars >>

\* `with self.lock: self.clients[username] = {...}` (acquire, write, release:
\* nothing else reads the map without the lock), then _broadcast(join) is called
RegWrite(c) ==
    /\ rpc[c] = "reg"
    /\ CanAcquire(c)
    /\ clients' = Put(clients, username[c], c)
    /\ lastReg' = [lastReg EXCEPT ![username[c]] = c]
    /\ joinCount' = [joinCount EXCEPT ![c] = @ + 1]
    /\ CallBroadcast(c, Msg(SERVER, "join", username[c], <<>>, <<>>),
                     username[c], "recv")
    /\ UNCHANGED << lock, username, wpc, active, queue, bcTodo, bcGot, bcFrame,
                    nFrames, leaveCount, popCount, polledAfterRead, bcFailed,
                    nFaults, errNotices, nBc, bcId, qid, lastSent, clientVars >>

\* a later frame: command or chat, up to the lock request inside _broadcast;
\* `outcome` is what the producer does when the frame is a known command
HandleText(c, raw, outcome) ==
    /\ rpc[c] = "recv"
    /\ active[c]
    /\ ~IsFirstFrame(c)
    /\ bcFrame' = [bcFrame EXCEPT ![c] = raw]
    /\ errNotices' =
           [errNotices EXCEPT ![c] =
               IF FrameMsg(raw, username[c], outcome).kind = "cmderr"
               THEN @ + 1 ELSE @]
    /\ CallBroadcast(c, FrameMsg(raw, username[c], outcome),
                     FrameExclude(raw, username[c]), "recv")
    /\ UNCHANGED << clients, lock, username, wpc, active, queue, bcTodo, bcGot,
                    nBc, bcId, qid, lastSent, joinCount, leaveCount, popCount,
                    lastReg, polledAfterRead, clientVars >>

\* a later frame arrives and is handled with no exception, while fewer than
\* `limit` text frames have been accepted
RecvTextWithin(c, raw, outcome, limit) ==
    /\ nFrames < limit
    /\ nFrames' = nFrames + 1
    /\ HandleText(c, raw, outcome)
    /\ UNCHANGED << bcFailed, nFaults >>

RecvText(c, raw, outcome) == RecvTextWithin(c, raw, outcome, MaxFrames)

\* mutation of CommandRaised: no try/except in _handle_command, the exception
\* leaves the for loop of read_incoming and the finally block runs
CommandRaisedUncaught(c, raw) ==
    /\ rpc[c] = "recv"
    /\ leaveCount' = [leaveCount EXCEPT ![c] = @ + 1]
    /\ CallBroadcast(c, Msg(SERVER, "leave", username[c], <<>>, <<>>),
                     username[c], "pop")
    /\ UNCHANGED << clients, lock, username, wpc, active, queue, bcTodo, bcGot,
                    bcFrame, errNotices, nBc, bcId, qid, lastSent, joinCount,
                    popCount, lastReg, polledAfterRead, clientVars >>

\* the producer raises inside the try of _handle_command: `except Exception`
\* broadcasts the error notice and the handler returns
CommandRaised(c, raw) == HandleText(c, raw, "raise")

\* a frame with a known command arrives and SERVER_COMMANDS[command]() raises
RecvCommandRaise(c, raw) ==
    /\ nFaults < MaxFaults
    /\ rpc[c] = "recv"
    /\ active[c]
    /\ ~IsFirstFrame(c)
    /\ StartsWithBang(Strip(raw))
    /\ CommandToken(Strip(raw)) \in SERVER_COMMANDS
    /\ nFaults' = nFaults + 1
    /\ CommandRaised(c, raw)
    /\ UNCHANGED << bcFailed, nFrames >>

\* _broadcast: `with self.lock:` entered, list(self.clients.items()) taken
BcAcquire(c) ==
    /\ rpc[c] = "bc_acq"
    /\ CanAcquire(c)
    /\ lock' = c
    /\ nBc' = nBc + 1
    /\ bcId' = [bcId EXCEPT ![c] = nBc + 1]
    /\ bcTodo' = [bcTodo EXCEPT ![c] = Items(clients)]
    /\ bcGot' = [bcGot EXCEPT ![c] = <<>>]
    /\ bcFailed' = [bcFailed EXCEPT ![c] = <<>>]
    /\ rpc' = [rpc EXCEPT ![c] = "bc_loop"]
    /\ UNCHANGED << clients, username, wpc, active, queue, bcMsg, bcExclude,
                    bcCont, bcFrame, nFrames, joinCount, leaveCount, popCount,
                    lastReg, polledAfterRead, nFaults, errNotices, qid,
                    lastSent, clientVars >>

\* one iteration of the for loop of _broadcast; `tag` is what the history
\* records for the message put
BcDeliverAs(c, tag) ==
    /\ rpc[c] = "bc_loop"
    /\ bcTodo[c] # <<>>
    /\ LET name == Head(bcTodo[c])[1]
           h    == Head(bcTodo[c])[2]
       IN  IF Excluded(bcExclude[c], name)
           THEN UNCHANGED << queue, qid, bcGot >>
           ELSE /\ queue' = [queue EXCEPT ![h] = Append(@, bcMsg[c])]
                /\ qid' = [qid EXCEPT ![h] = Append(@, tag)]
                /\ bcGot' = [bcGot EXCEPT ![c] = Append(@, h)]
    /\ bcTodo' = [bcTodo EXCEPT ![c] = Tail(@)]
    /\ UNCHANGED << clients, lock, username, rpc, wpc, active, bcMsg, bcExclude,
                    bcCont, bcFrame, nFrames, joinCount, leaveCount, popCount,
                    lastReg, polledAfterRead, bcFailed, nFaults, errNotices,
                    nBc, bcId, lastSent,
                    clientVars >>

\* one iteration of the for loop of _broadcast
BcDeliver(c) == BcDeliverAs(c, 0)

\* the same iteration, with the rank of the call recorded for the message
BcDeliverRanked(c) == BcDeliverAs(c, bcId[c])

\* mutation of RestAfterFailure: the try around the whole loop, so that an
\* exception of one put ends the fan-out
RestAfterFailureNone(todo) == <<>>

\* `except Exception: pass` inside the loop body: the loop goes on with the
\* next entry
RestAfterFailure(todo) == Tail(todo)

\* one iteration of the for loop of _broadcast in which queue.put raises
BcDeliverFail(c) ==
    /\ rpc[c] = "bc_loop"
    /\ bcTodo[c] # <<>>
    /\ ~Excluded(bcExclude[c], Head(bcTodo[c])[1])
    /\ nFaults < MaxFaults
    /\ nFaults' = nFaults + 1
    /\ bcFailed' = [bcFailed EXCEPT ![c] = Append(@, Head(bcTodo[c])[2])]
    /\ bcTodo' = [bcTodo EXCEPT ![c] = RestAfterFailure(@)]
    /\ UNCHANGED << clients, lock, username, rpc, wpc, active, queue, bcMsg,
                    bcExclude, bcCont, bcGot, bcFrame, nFrames, joinCount,
                    leaveCount, popCount, lastReg, polledAfterRead,
                    errNotices, nBc, bcId, qid, lastSent, clientVars >>

\* the for loop is over: lock released, _broadcast returns
BcReturn(c) ==
    /\ rpc[c] = "bc_loop"
    /\ bcTodo[c] = <<>>
    /\ lock' = 0
    /\ bcId' = [bcId EXCEPT ![c] = 0]
    /\ rpc' = [rpc EXCEPT ![c] = bcCont[c]]
    /\ bcMsg' = [bcMsg EXCEPT ![c] = NoMsg]
    /\ bcExclude' = [bcExclude EXCEPT ![c] = NoName]
    /\ bcCont' = [bcCont EXCEPT ![c] = "none"]
    /\ bcGot' = [bcGot EXCEPT ![c] = <<>>]
    /\ bcFailed' = [bcFailed EXCEPT ![c] = <<>>]
    /\ bcFrame' = [bcFrame EXCEPT ![c] = <<>>]
    /\ UNCHANGED << clients, username, wpc, active, queue, bcTodo, nFrames,
                    joinCount, leaveCount, popCount, lastReg, polledAfterRead,
                    nFaults, errNotices, nBc, qid, lastSent, clientVars >>

\* the for loop over request_iterator ends and the finally block starts:
\* `if username:` the leave notice is broadcast first, the pop comes after it
EndStream(c) ==
    /\ rpc[c] = "recv"
    /\ IF TeardownNeeded(c)
       THEN /\ leaveCount' = [leaveCount EXCEPT ![c] = @ + 1]
            /\ CallBroadcast(c, Msg(SERVER, "leave", username[c], <<>>, <<>>),
                             username[c], "pop")
       ELSE /\ rpc' = [rpc EXCEPT ![c] = "done"]
            /\ UNCHANGED << leaveCount, bcMsg, bcExclude, bcCont >>
    /\ UNCHANGED << clients, lock, username, wpc, active, queue, bcTodo, bcGot,
                    bcFrame, nFrames, joinCount, popCount, lastReg,
                    polledAfterRead, bcFailed, nFaults, errNotices, nBc, bcId,
                    qid, lastSent, clientVars >>

\* the client half-closed its request stream: the iterator is exhausted
StreamClosed(c) == active[c] /\ EndStream(c)

\* the iterator raises grpc.RpcError: the RPC was terminated
StreamRpcError(c) == ~active[c] /\ EndStream(c)

\* `with self.lock: self.clients.pop(username, None)` (acquire, write, release)
PopWrite(c) ==
    /\ rpc[c] = "pop"
    /\ CanAcquire(c)
    /\ clients' = Pop(clients, username[c])
    /\ popCount' = [popCount EXCEPT ![c] = @ + 1]
    /\ rpc' = [rpc EXCEPT ![c] = "done"]
    /\ UNCHANGED << lock, username, wpc, active, queue, bcMsg, bcExclude, bcTodo,
                    bcCont, bcGot, bcFrame, nFrames, joinCount, leaveCount,
                    lastReg, polledAfterRead, bcFailed, nFaults, errNotices,
                    nBc, bcId, qid, lastSent, clientVars >>

\* write side: `while context.is_active():`; when it fails the finally block
\* runs reader_thread.join(timeout=2.0) and the generator returns
WCheck(c) ==
    /\ wpc[c] = "check"
    /\ IF StillActive(c)
       THEN /\ wpc' = [wpc EXCEPT ![c] = "get"]
            /\ polledAfterRead' =
                   [polledAfterRead EXCEPT ![c] = @ \/ rpc[c] = "done"]
       ELSE /\ wpc' = [wpc EXCEPT ![c] = "done"]
            /\ UNCHANGED polledAfterRead
    /\ UNCHANGED << clients, lock, username, rpc, active, queue, bcMsg, bcExclude,
                    bcTodo, bcCont, bcGot, bcFrame, nFrames, joinCount, leaveCount,
                    popCount, lastReg, bcFailed, nFaults, errNotices, nBc,
                    bcId, qid, lastSent, clientVars >>

\* outgoing_queue.get(timeout=1.0) returns a message, which is yielded (the
\* generator is resumed for the next message, or closed when the RPC is over)
WGet(c, next) ==
    /\ wpc[c] = "get"
    /\ queue[c] # <<>>
    /\ IF next = "done" THEN ~active[c] ELSE TRUE
    /\ queue' = [queue EXCEPT ![c] = Tail(@)]
    /\ qid' = [qid EXCEPT ![c] = Tail(@)]
    /\ lastSent' = [lastSent EXCEPT ![c] = Head(qid[c])]
    /\ wpc' = [wpc EXCEPT ![c] = next]
    /\ UNCHANGED << clients, lock, username, rpc, active, bcMsg, bcExclude,
                    bcTodo, bcCont, bcGot, bcFrame, nFrames, joinCount, leaveCount,
                    popCount, lastReg, polledAfterRead, bcFailed, nFaults,
                    errNotices, nBc, bcId, clientVars >>

\* outgoing_queue.get(timeout=1.0) raises queue.Empty: `continue`
WTimeout(c) ==
    /\ wpc[c] = "get"
    /\ queue[c] = <<>>
    /\ wpc' = [wpc EXCEPT ![c] = "check"]
    /\ UNCHANGED << clients, lock, username, rpc, active, queue, bcMsg,
                    bcExclude, bcTodo, bcCont, bcGot, bcFrame, nFrames, joinCount,
                    leaveCount, popCount, lastReg, polledAfterRead, bcFailed,
                    nFaults, errNotices, nBc, bcId, qid, lastSent, clientVars >>

ReaderStep(c) ==
    \/ RegWrite(c)
    \/ BcAcquire(c)
    \/ BcDeliver(c)
    \/ BcReturn(c)
    \/ PopWrite(c)

WriterStep(c) ==
    \/ WCheck(c)
    \/ \E next \in {"check", "done"} : WGet(c, next)
    \/ WTimeout(c)

TransportStep(c) ==
    \/ Connect(c)
    \/ Deactivate(c)
    \/ \E raw \in RawNames : RecvRegister(c, raw)
    \/ \E raw \in RawTexts : RecvText(c, raw, "ok")
    \/ StreamClosed(c)
    \/ StreamRpcError(c)

Next == \E c \in Sessions : ReaderStep(c) \/ WriterStep(c) \/ TransportStep(c)

Spec == Init /\ [][Next]_vars

\* the scheduler runs every reader thread that can take a step
FairSpec == Spec /\ \A c \in Sessions : WF_vars(ReaderStep(c))

\* the reader threads and the transport alone: the write sides take no lock
\* and read no registry, they only shorten their own queue
ReaderNext == \E c \in Sessions : ReaderStep(c) \/ TransportStep(c)

ReaderFairSpec ==
    Init /\ [][ReaderNext]_vars /\ \A c \in Sessions : WF_vars(ReaderStep(c))

\* the exceptions the handlers catch: a put that raises, a producer that raises
FaultStep(c) ==
    \/ BcDeliverFail(c)
    \/ \E raw \in RawTexts : RecvCommandRaise(c, raw)

\* the transport of a connection that stays up: frames arrive until the client
\* half-closes its request stream
OpenTransportStep(c) ==
    \/ Connect(c)
    \/ \E raw \in RawNames : RecvRegister(c, raw)
    \/ \E raw \in RawTexts : RecvText(c, raw, "ok")
    \/ StreamClosed(c)

\* the reader threads with these exceptions on connections that stay up (the
\* write sides take no part in a broadcast or in command handling)
FaultNext ==
    \E c \in Sessions : ReaderStep(c) \/ OpenTransportStep(c) \/ FaultStep(c)

FaultSpec == Init /\ [][FaultNext]_vars

\* text frames accepted overall where two broadcasts have to race
MaxRaceFrames == MaxFrames + 1

\* the reader threads with the rank of every call recorded in the queues
RankedReaderStep(c) ==
    \/ RegWrite(c)
    \/ BcAcquire(c)
    \/ BcDeliverRanked(c)
    \/ BcReturn(c)
    \/ PopWrite(c)

\* the texts of RawTexts that _handle_command finds in SERVER_COMMANDS: their
\* replies are broadcast with exclude=None and reach every registered queue
CommandTexts ==
    { raw \in RawTexts :
        StartsWithBang(Strip(raw)) /\ CommandToken(Strip(raw)) \in SERVER_COMMANDS }

\* the transport of a connection that stays up and whose client sends
\* commands, with room for a second frame
RaceTransportStep(c) ==
    \/ Connect(c)
    \/ \E raw \in RawNames : RecvRegister(c, raw)
    \/ \E raw \in CommandTexts : RecvTextWithin(c, raw, "ok", MaxRaceFrames)
    \/ StreamClosed(c)

OrderNext ==
    \E c \in Sessions :
        RankedReaderStep(c) \/ WriterStep(c) \/ RaceTransportStep(c)

OrderSpec == Init /\ [][OrderNext]_vars

\* ---------------------------------------------------------------- client
\* self.username and self.emoji of the ChatClient of the model
ClientUsername == <<"a">>
ClientEmoji    == <<":", ")">>

\* lines input() may return
ClientLines == { <<>>, <<"h", "i">>, <<"!", "T">>, <<"/", "q", "u", "i", "T">> }

\* the words that end input_loop (those of the list that the alphabet of the
\* model can spell)
ExitWords == { <<"e", "x", "i", "t">>, <<"q", "u", "i", "t">>,
               <<"/", "q", "u", "i", "t">> }

\* pb2.ChatMessage(username=..., text=..., emoji=...) as the client builds it
Frame(name, text, emoji) ==
    [kind |-> "msg", username |-> name, text |-> text, emoji |-> emoji]

\* the None that input_loop puts into the queue to end the generator
NoneItem == [kind |-> "None", username |-> <<>>, text |-> <<>>, emoji |-> <<>>]

\* the registration frame of line 150
RegFrame == Frame(ClientUsername, <<>>, ClientEmoji)

\* start(): the client object is built, generate_outgoing() is handed to
\* stub.ChatStream and input_loop is entered (connect itself is followed in
\* ConnectSpec)
ClientInit ==
    /\ ServerInit
    /\ ConnIdle
    /\ gpc = "new"
    /\ ipc = "wait"
    /\ connected = FALSE
    /\ running = TRUE
    /\ outq = <<>>
    /\ sent = <<>>
    /\ nTyped = 0

\* mutation of GenFirst: the registration yield left out
GenFirstNoReg ==
    /\ gpc = "new"
    /\ gpc' = "loop"
    /\ connected' = TRUE
    /\ UNCHANGED << ipc, running, outq, sent, nTyped, serverVars, connVars >>

\* generate_outgoing is started: it runs up to its first yield (line 150)
GenFirst ==
    /\ gpc = "new"
    /\ sent' = Append(sent, RegFrame)
    /\ gpc' = "yreg"
    /\ UNCHANGED << ipc, connected, running, outq, nTyped, serverVars, connVars >>

\* the generator is resumed after the first yield: self.connected.set()
GenConnected ==
    /\ gpc = "yreg"
    /\ connected' = TRUE
    /\ gpc' = "loop"
    /\ UNCHANGED << ipc, running, outq, sent, nTyped, serverVars, connVars >>

\* `while self.running:` and a get that returns an item: None ends the
\* generator, a message is yielded (a get that times out changes nothing)
GenLoop ==
    /\ gpc = "loop"
    /\ IF ~running
       THEN gpc' = "end" /\ UNCHANGED << outq, sent >>
       ELSE /\ outq # <<>>
            /\ outq' = Tail(outq)
            /\ IF Head(outq).kind = "None"
               THEN gpc' = "end" /\ UNCHANGED sent
               ELSE gpc' = "ymsg" /\ sent' = Append(sent, Head(outq))
    /\ UNCHANGED << ipc, connected, running, nTyped, serverVars, connVars >>

\* the generator is resumed after `yield msg`
GenResume ==
    /\ gpc = "ymsg"
    /\ gpc' = "loop"
    /\ UNCHANGED << ipc, connected, running, outq, sent, nTyped, serverVars, connVars >>

\* input_loop: self.connected.wait() returns
InWait ==
    /\ ipc = "wait"
    /\ connected
    /\ ipc' = "read"
    /\ UNCHANGED << gpc, connected, running, outq, sent, nTyped, serverVars, connVars >>

\* input_loop: `while self.running:`; when it fails, lines 214-215
InCheck ==
    /\ ipc = "read"
    /\ IF running
       THEN ipc' = "input" /\ UNCHANGED << outq, running >>
       ELSE /\ ipc' = "end"
            /\ outq' = Append(outq, NoneItem)
            /\ running' = FALSE
    /\ UNCHANGED << gpc, connected, sent, nTyped, serverVars, connVars >>

\* input_loop: input() returns `line`
InLine(line) ==
    /\ ipc = "input"
    /\ nTyped < MaxTyped
    /\ nTyped' = nTyped + 1
    /\ IF line = <<>>
       THEN ipc' = "read" /\ UNCHANGED << outq, running >>
       ELSE IF Lower(line) \in ExitWords
       THEN /\ ipc' = "end"
            /\ outq' = outq \o << NoneItem, NoneItem >>
            /\ running' = FALSE
       ELSE /\ ipc' = "read"
            /\ outq' = Append(outq, Frame(ClientUsername, line, ClientEmoji))
            /\ UNCHANGED running
    /\ UNCHANGED << gpc, connected, sent, serverVars, connVars >>

\* input_loop: input() raises EOFError or KeyboardInterrupt
InInterrupt ==
    /\ ipc = "input"
    /\ ipc' = "end"
    /\ outq' = Append(outq, NoneItem)
    /\ running' = FALSE
    /\ UNCHANGED << gpc, connected, sent, nTyped, serverVars, connVars >>

\* receive_loop ends (the response stream is over): self.running = False
ReceiveEnds ==
    /\ gpc # "none"
    /\ running
    /\ running' = FALSE
    /\ UNCHANGED << gpc, ipc, connected, outq, sent, nTyped, serverVars, connVars >>

ClientStep ==
    \/ GenFirst
    \/ GenConnected
    \/ GenLoop
    \/ GenResume
    \/ InWait
    \/ InCheck
    \/ \E line \in ClientLines : InLine(line)
    \/ InInterrupt
    \/ ReceiveEnds

\* the ChatStream call the client of the model is on
ClientSession == 1

\* the other ChatStream call: a peer that sends one frame of its own making
PeerSession == 2

\* frames of the client's request stream the server has taken
Consumed == (IF username[ClientSession] # NoName THEN 1 ELSE 0) + nFrames

\* the body of `for request in request_iterator:` for one frame: the test of
\* line 63 decides between the registration branch and the text branch
RecvFrame(c, name, text, limit) ==
    IF IsFirstFrame(c)
    THEN RecvRegister(c, name)
    ELSE RecvTextWithin(c, text, "ok", limit)

\* the reader of the client's session takes the next frame the client yielded
ClientRecv ==
    /\ Consumed < Len(sent)
    /\ RecvFrame(ClientSession, sent[Consumed + 1].username,
                 sent[Consumed + 1].text, MaxTyped)

\* the client's generator is over and every frame was taken: the request
\* stream of its session is exhausted
ClientClose ==
    /\ gpc = "end"
    /\ Consumed = Len(sent)
    /\ StreamClosed(ClientSession)

\* the peer: it connects, sends one frame with any username and any text,
\* and closes its stream
PeerStep ==
    \/ Connect(PeerSession)
    \/ /\ username[PeerSession] = NoName
       /\ \E name \in RawNames : \E text \in RawTexts \cup {<<>>} :
              RecvFrame(PeerSession, name, text, 0)
    \/ StreamClosed(PeerSession)

ClientNext ==
    \/ ClientStep
    \/ Connect(ClientSession)
    \/ ClientRecv
    \/ ClientClose
    \/ PeerStep
    \/ \E c \in Sessions : ReaderStep(c)

ClientSpec == ClientInit /\ [][ClientNext]_vars

\* ---------------------------------------------------------------- connect
\* range(5)
MaxAttempts == 5

\* values of config['reconnect_delay'] (seconds; DEFAULT_CONFIG has 2)
Delays == {0, 1, 2, 3, 5}

RECURSIVE Pow2(_)
Pow2(n) == IF n = 0 THEN 1 ELSE 2 * Pow2(n - 1)

\* mutation of Backoff: the delay grows linearly
BackoffLinear(delay, n) == delay * (n + 1)

\* delay = self.config['reconnect_delay'] * (2 ** attempt)
Backoff(delay, n) == delay * Pow2(n)

\* connect() is called with some configuration
ConnectInit ==
    /\ ServerInit
    /\ ClientIdle
    /\ kpc = "for"
    /\ attempt = 0
    /\ autoRec \in BOOLEAN
    /\ recDelay \in Delays
    /\ kresult = "none"
    /\ nTried = 0
    /\ slept = <<>>

\* `for attempt in range(5):` gives the next value, or the loop is over and
\* line 145 returns False
ForNext ==
    /\ kpc = "for"
    /\ IF attempt < MaxAttempts
       THEN kpc' = "try" /\ UNCHANGED kresult
       ELSE kpc' = "ret" /\ kresult' = "False"
    /\ UNCHANGED << attempt, autoRec, recDelay, nTried, slept, serverVars,
                    gpc, ipc, connected, running, outq, sent, nTyped >>

\* the try block: channel and stub are created, and the channel gets ready
\* within the timeout: return True
TryReady ==
    /\ kpc = "try"
    /\ nTried' = nTried + 1
    /\ kresult' = "True"
    /\ kpc' = "ret"
    /\ UNCHANGED << attempt, autoRec, recDelay, slept, serverVars,
                    gpc, ipc, connected, running, outq, sent, nTyped >>

\* the try block raises (the timeout expires, or the channel cannot be made)
TryRaises ==
    /\ kpc = "try"
    /\ nTried' = nTried + 1
    /\ kpc' = "except"
    /\ UNCHANGED << attempt, autoRec, recDelay, kresult, slept, serverVars,
                    gpc, ipc, connected, running, outq, sent, nTyped >>

\* the except block: without auto_reconnect return False, else sleep for the
\* delay and go on with the next value of the loop variable
ExceptBlock ==
    /\ kpc = "except"
    /\ IF ~autoRec
       THEN /\ kpc' = "ret"
            /\ kresult' = "False"
            /\ UNCHANGED << attempt, slept >>
       ELSE /\ slept' = Append(slept, Backoff(recDelay, attempt))
            /\ attempt' = attempt + 1
            /\ kpc' = "for"
            /\ UNCHANGED kresult
    /\ UNCHANGED << autoRec, recDelay, nTried, serverVars,
                    gpc, ipc, connected, running, outq, sent, nTyped >>

ConnectNext == ForNext \/ TryReady \/ TryRaises \/ ExceptBlock

\* the thread that called connect keeps running
ConnectSpec == ConnectInit /\ [][ConnectNext]_vars /\ WF_vars(ConnectNext)

\* ---------------------------------------------------------------- properties
\* number of times x occurs in seq
Count(seq, x) == Cardinality({ i \in 1 .. Len(seq) : seq[i] = x })

\* the for loop of the _broadcast call of session c is over, lock still held
FanOutDone(c) == rpc[c] = "bc_loop" /\ bcTodo[c] = <<>>

\* session s holds a registry entry whose name is not `exclude`
RegisteredUnder(s, exclude) ==
    \E i \in 1 .. Len(clients) : clients[i][2] = s /\ clients[i][1] # exclude

\* the session went through `self.clients[username] = ...`
Registered(s) == joinCount[s] >= 1

\* C1: when a _broadcast call with exclude = X has gone through the registry,
\* the queue of every client registered under a name other than X got the
\* message exactly once and no other queue got it (X = None excludes nobody);
\* a plain chat message is never put into the queue of the session it is
\* relayed for.
C1_BroadcastFanOut ==
    \A c \in Sessions :
        /\ FanOutDone(c) =>
               \A s \in Sessions :
                   Count(bcGot[c], s) =
                       IF RegisteredUnder(s, bcExclude[c]) THEN 1 ELSE 0
        /\ (rpc[c] = "bc_loop" /\ bcMsg[c].kind = "chat") =>
               Count(bcGot[c], c) = 0

\* C1 witness: a chat message relayed with two clients registered reached
\* exactly the other client's queue
C1_Witness ==
    \E c \in Sessions :
        /\ FanOutDone(c)
        /\ bcMsg[c].kind = "chat"
        /\ Len(clients) = 2
        /\ RegisteredUnder(c, NoName)
        /\ Len(bcGot[c]) = 1

\* C2: a session that registered and whose reader thread is over issued
\* exactly one leave broadcast and executed exactly one registry removal,
\* and no session ever issues two of either, whether or not the write side
\* saw the inactive connection too.
C2_TeardownOnce ==
    \A c \in Sessions :
        /\ leaveCount[c] <= 1
        /\ popCount[c] <= 1
        /\ popCount[c] <= leaveCount[c]
        /\ (rpc[c] = "done" /\ Registered(c)) =>
               (leaveCount[c] = 1 /\ popCount[c] = 1)

\* C2 witness: the stream of a registered session ended with an RPC error,
\* the write side left its loop too, and the teardown has run
C2_Witness ==
    \E c \in Sessions :
        /\ rpc[c] = "done"
        /\ Registered(c)
        /\ ~active[c]
        /\ wpc[c] = "done"
        /\ leaveCount[c] = 1
        /\ popCount[c] = 1

\* a _broadcast call of another session put its message into the queue of s
\* in this step (the write side only ever shortens the queue)
Enqueued(s) == Len(queue'[s]) > Len(queue[s])

\* C3 as claimed: while the leave notice of a session is handed to the other
\* clients' queues, the handle of the departing session is already out of the
\* registry (unregister first, leave broadcast second).
C3_UnregisterBeforeLeave ==
    \A s \in Sessions :
        (rpc[s] = "bc_loop" /\ bcMsg[s].kind = "leave") =>
            ~RegisteredUnder(s, NoName)

\* C3 amended: the leave broadcast comes first and the registry removal
\* second; once the removal has run (the reader thread is over) the handle of
\* the departed session is in no registry entry and no later broadcast puts a
\* message into its queue.
C3_LeaveThenUnregister ==
    /\ [](\A s \in Sessions :
            /\ (rpc[s] = "bc_loop" /\ bcMsg[s].kind = "leave") => popCount[s] = 0
            /\ popCount[s] = 1 => (leaveCount[s] = 1 /\ rpc[s] = "done")
            /\ rpc[s] = "done" => ~RegisteredUnder(s, NoName))
    /\ [][\A s \in Sessions : rpc[s] = "done" => ~Enqueued(s)]_vars

\* C3 witness: a session has left, and a broadcast issued after its removal
\* has gone through the registry without reaching its queue
C3_Witness ==
    \E s, t \in Sessions :
        /\ s # t
        /\ rpc[s] = "done"
        /\ popCount[s] = 1
        /\ FanOutDone(t)
        /\ bcMsg[t].kind = "cmd"
        /\ bcGot[t] = <<t>>

\* a later session registered under the name of s
Replaced(s) == Registered(s) /\ lastReg[username[s]] # s

C5_TeardownIsolated ==
    \A t \in Sessions :
        (Registered(t) /\ leaveCount[t] = 0 /\ lastReg[username[t]] = t) =>
            Get(clients, username[t]) = t

\* what the three frames of RawTexts are, read off by hand: the stripped text,
\* the lower-cased first word, and whether that word is a key of the table
BangFrame  == <<" ", "!", "T", " ", "x">>
BangText   == <<"!", "T", " ", "x">>
BangToken  == <<"!", "t">>
BogusFrame == <<"!", "z">>
ChatFrame  == <<"h", "i">>

\* C6: a frame whose trimmed text starts with "!" is never relayed as chat;
\* when its lower-cased first word is a key of the command table one SERVER
\* message carrying the original text and the producer's output reaches the
\* queue of every registered client, the sender's entry included; when it is
\* not, one SERVER "unknown command" notice reaches the queue of every
\* registered client except the entry under the sender's name.
C6_CommandDispatch ==
    \A c \in Sessions :
        /\ (rpc[c] \in {"bc_acq", "bc_loop"} /\ bcFrame[c] = BangFrame) =>
               /\ bcMsg[c] = Msg(SERVER, "cmd", username[c], BangText, BangToken)
               /\ FanOutDone(c) =>
                      \A s \in Sessions :
                          Count(bcGot[c], s) =
                              IF RegisteredUnder(s, NoName) THEN 1 ELSE 0
        /\ (rpc[c] \in {"bc_acq", "bc_loop"} /\ bcFrame[c] = BogusFrame) =>
               /\ bcMsg[c] = Msg(SERVER, "unknown", <<>>, BogusFrame, <<>>)
               /\ FanOutDone(c) =>
                      \A s \in Sessions :
                          Count(bcGot[c], s) =
                              IF RegisteredUnder(s, username[c]) THEN 1 ELSE 0
        /\ (rpc[c] \in {"bc_acq", "bc_loop"} /\ bcFrame[c] = ChatFrame) =>
               bcMsg[c] = Msg(username[c], "chat", username[c], ChatFrame, <<>>)
        /\ bcMsg[c].kind = "chat" => bcFrame[c] = ChatFrame

\* C6 witness: the reply to a known command reached both registered clients,
\* the sender among them
C6_Witness ==
    \E c \in Sessions :
        /\ FanOutDone(c)
        /\ bcFrame[c] = BangFrame
        /\ Len(bcGot[c]) = 2
        /\ Count(bcGot[c], c) = 1

\* C7: removing a name that is not in the registry (a second removal, or a
\* name never inserted) changes neither the registry nor any queue and the
\* reader thread ends normally; removing a name leaves it absent, and a
\* second removal gives what the first one gave.
C7_UnregisterIdempotent ==
    /\ [](\A n \in Names :
            /\ ~Has(Pop(clients, n), n)
            /\ Pop(Pop(clients, n), n) = Pop(clients, n)
            /\ ~Has(clients, n) => Pop(clients, n) = clients)
    /\ [][\A c \in Sessions :
            (rpc[c] = "pop" /\ rpc'[c] # "pop" /\ ~Has(clients, username[c])) =>
                (clients' = clients /\ queue' = queue /\ rpc'[c] = "done")]_vars

\* C7 witness: two sessions registered under one name have both run their
\* teardown, so the name was removed twice
C7_Witness ==
    \E s, t \in Sessions :
        /\ s # t
        /\ username[s] = username[t]
        /\ Registered(s) /\ Registered(t)
        /\ popCount[s] = 1 /\ popCount[t] = 1

\* C8: a session registers once, on its first frame: its name never changes
\* afterwards and it issues one join notice; when the notice is issued the
\* handle is already in the registry; the notice reaches the queue of every
\* client registered under another name exactly once and never the queue of
\* the joining session.
C8_JoinOnce ==
    /\ [](\A c \in Sessions :
            /\ joinCount[c] <= 1
            /\ (rpc[c] = "bc_loop" /\ bcMsg[c].kind = "join") =>
                   /\ Count(bcGot[c], c) = 0
                   /\ FanOutDone(c) =>
                          \A s \in Sessions :
                              Count(bcGot[c], s) =
                                  IF RegisteredUnder(s, username[c]) THEN 1 ELSE 0)
    /\ [][\A c \in Sessions :
            /\ username[c] # NoName => username'[c] = username[c]
            /\ joinCount'[c] # joinCount[c] =>
                   /\ joinCount[c] = 0
                   /\ nFrames' = nFrames
                   /\ Get(clients', username[c]) = c
                   /\ bcMsg'[c] = Msg(SERVER, "join", username[c], <<>>, <<>>)]_vars

\* C8 witness: the join notice of the second session reached the queue of
\* the first one, which is registered under another name
C8_Witness ==
    \E c \in Sessions :
        /\ FanOutDone(c)
        /\ bcMsg[c].kind = "join"
        /\ Len(clients) = 2
        /\ Len(bcGot[c]) = 1

\* the write side of c starts a poll (a queue.get call) in this step
StartsPoll(c) == wpc[c] = "check" /\ wpc'[c] = "get"

\* C9 as claimed: once the reader thread of a session is over, its write side
\* starts at most one more poll of the queue.
C9_WriterFollowsReader ==
    [][\A c \in Sessions :
         (rpc[c] = "done" /\ polledAfterRead[c]) => ~StartsPoll(c)]_vars

\* C9 amended: the write side follows the connection, not the reader: once
\* context.is_active() is false it starts no further poll, it ends at most
\* the poll in progress and leaves the loop at its next check.
C9_WriterFollowsContext ==
    [][\A c \in Sessions :
         ~active[c] =>
             /\ ~StartsPoll(c)
             /\ (wpc[c] = "check" /\ wpc'[c] # "check") => wpc'[c] = "done"]_vars

\* C9 witness: the connection of a registered session went inactive during
\* a poll and the write side has left its loop
C9_Witness ==
    \E c \in Sessions :
        /\ Registered(c)
        /\ ~active[c]
        /\ wpc[c] = "done"

\* the reader of c is inside a register, a _broadcast or an unregister
Busy(c) == rpc[c] \in {"reg", "bc_acq", "bc_loop", "pop"}

\* C10: the lock is held by exactly the reader that is inside the loop of
\* _broadcast, so at most one reader is in a critical section and no reader
\* that waits for the lock holds it; the registry snapshot exists only under
\* the lock and the map changes only in a step that finds the lock free; and
\* every register, broadcast and unregister that starts comes to its end.
C10_LockDiscipline ==
    /\ [](/\ lock \in Sessions \cup {0}
          /\ \A c \in Sessions :
                /\ lock = c <=> rpc[c] = "bc_loop"
                /\ bcTodo[c] # <<>> => lock = c
                /\ rpc[c] \in {"reg", "bc_acq", "pop"} => lock # c
          /\ Cardinality({ c \in Sessions : rpc[c] = "bc_loop" }) <= 1)
    /\ [][clients' # clients => (lock = 0 /\ lock' = 0)]_vars
    /\ \A c \in Sessions : Busy(c) ~> ~Busy(c)

\* C10 witness: one reader is inside the loop of _broadcast and holds the
\* lock while the other waits to register
C10_Witness ==
    \E c, d \in Sessions :
        /\ lock = c
        /\ rpc[c] = "bc_loop"
        /\ rpc[d] = "reg"

\* queue.put raises for one recipient in this step of the call of c
PutFails(c) == Len(bcFailed'[c]) > Len(bcFailed[c])

\* C11: when queue.put raises for one recipient of a _broadcast call, the call
\* goes on: nothing of the calling session (its name, its position in the
\* loop of _broadcast, the place it returns to), of the registry or of the
\* lock changes in that step; when the call has gone through the registry
\* every client registered under a name that is not excluded either got the
\* message once or is the one whose put raised, and the call returns to where
\* it was made, with the lock released.
C11_PutFailureSwallowed ==
    /\ [](\A c \in Sessions :
            FanOutDone(c) =>
                \A s \in Sessions :
                    /\ Count(bcGot[c], s) + Count(bcFailed[c], s) =
                           IF RegisteredUnder(s, bcExclude[c]) THEN 1 ELSE 0
                    /\ Count(bcFailed[c], s) = 0 =>
                           Count(bcGot[c], s) =
                               IF RegisteredUnder(s, bcExclude[c]) THEN 1 ELSE 0)
    /\ [][\A c \in Sessions :
            /\ PutFails(c) =>
                   /\ rpc' = rpc /\ username' = username /\ clients' = clients
                   /\ lock' = lock /\ queue' = queue /\ bcMsg' = bcMsg
                   /\ bcCont' = bcCont /\ bcGot' = bcGot
                   /\ leaveCount' = leaveCount /\ popCount' = popCount
            /\ (rpc[c] = "bc_loop" /\ rpc'[c] # "bc_loop") =>
                   /\ rpc'[c] = bcCont[c]
                   /\ bcCont[c] \in {"recv", "pop"}
                   /\ lock' = 0
                   /\ username' = username /\ clients' = clients]_vars

\* C11 witness: the put into the first of two registered queues raised and
\* the message reached the second one
C11_Witness ==
    \E c \in Sessions :
        /\ FanOutDone(c)
        /\ Len(clients) = 2
        /\ bcExclude[c] = NoName
        /\ Len(bcFailed[c]) = 1
        /\ Len(bcGot[c]) = 1
        /\ bcFailed[c][1] = clients[1][2]
        /\ bcGot[c][1] = clients[2][2]

\* the producer of a known command raises in this step of the reader of c
ProducerRaises(c) ==
    nFaults' > nFaults /\ bcFailed' = bcFailed /\ rpc'[c] # rpc[c]

\* the reader of c is inside the _broadcast call of a command error notice
InErrorNotice(c) == rpc[c] \in {"bc_acq", "bc_loop"} /\ bcMsg[c].kind = "cmderr"

\* C12: when the producer of a known command raises, the reader of the session
\* makes one _broadcast call for it, of a SERVER error notice that excludes
\* nobody, and nothing else: no name, registry entry, leave notice or removal
\* changes in that step or during the call; the notice reaches the queue of
\* every registered client once (unless that put raises), and the call returns
\* into the read loop, which waits for the next frame of a session that is
\* still registered and has run no teardown.
C12_ProducerErrorCaught ==
    /\ [](\A c \in Sessions :
            /\ InErrorNotice(c) =>
                   /\ bcMsg[c] = Msg(SERVER, "cmderr", <<>>, <<>>, <<>>)
                   /\ bcExclude[c] = NoName
                   /\ bcCont[c] = "recv"
                   /\ bcFrame[c] = BangFrame
                   /\ Registered(c) /\ leaveCount[c] = 0 /\ popCount[c] = 0
            /\ (InErrorNotice(c) /\ FanOutDone(c)) =>
                   \A s \in Sessions :
                       Count(bcGot[c], s) + Count(bcFailed[c], s) =
                           IF RegisteredUnder(s, NoName) THEN 1 ELSE 0
            /\ bcMsg[c].kind = "cmderr" => InErrorNotice(c))
    /\ [][\A c \in Sessions :
            /\ ProducerRaises(c) =>
                   /\ errNotices'[c] = errNotices[c] + 1
                   /\ rpc[c] = "recv" /\ rpc'[c] = "bc_acq"
                   /\ bcMsg'[c].kind = "cmderr"
                   /\ clients' = clients /\ username' = username
                   /\ queue' = queue /\ lock' = lock
                   /\ leaveCount' = leaveCount /\ popCount' = popCount
                   /\ joinCount' = joinCount
            /\ (InErrorNotice(c) /\ rpc'[c] # rpc[c]) =>
                   /\ clients' = clients /\ username' = username
                   /\ leaveCount' = leaveCount /\ popCount' = popCount
                   /\ rpc'[c] \in {"bc_loop", "recv"}
            /\ (errNotices'[c] # errNotices[c] \/
                   (bcMsg'[c].kind = "cmderr" /\ bcMsg[c].kind # "cmderr")) =>
                   ProducerRaises(c)]_vars

\* C12 witness: a session whose command raised has had its error notice
\* delivered to both registered clients and is relaying its next frame, a
\* chat message, still registered
C12_Witness ==
    \E c \in Sessions :
        /\ errNotices[c] = 1
        /\ rpc[c] = "bc_loop"
        /\ bcMsg[c].kind = "chat"
        /\ Get(clients, username[c]) = c
        /\ leaveCount[c] = 0
        /\ \E s \in Sessions :
               /\ s # c
               /\ \E i \in 1 .. Len(queue[s]) : queue[s][i].kind = "cmderr"

\* C13 as claimed: a message is put into a queue only in a step that finds
\* the registry lock free and leaves it free (the registry is copied under
\* the lock, the lock is released, and the puts come after), so that no
\* reader waits for the lock while another session's message is delivered.
C13_SnapshotThenIterate ==
    [][\A s \in Sessions : Enqueued(s) => (lock = 0 /\ lock' = 0)]_vars

\* the queue of session s is the handle of an entry of the list
HandleIn(list, s) == \E i \in 1 .. Len(list) : list[i][2] = s

\* C14: once the reader thread of a session is over, no entry of the registry
\* and no entry of a registry copy some _broadcast call still works on holds
\* the queue of that session, whatever the other sessions registered
\* (under the same name too), broadcast or tore down; the reader stays over,
\* and no broadcast puts a message into that queue any more.
C14_ClosedNotRegistered ==
    /\ [](\A s \in Sessions :
            rpc[s] = "done" =>
                /\ ~HandleIn(clients, s)
                /\ \A c \in Sessions : ~HandleIn(bcTodo[c], s))
    /\ [][\A s \in Sessions :
            rpc[s] = "done" =>
                /\ rpc'[s] = "done"
                /\ Len(queue'[s]) <= Len(queue[s])]_vars

\* C14 witness: of two sessions registered under one name the first is over;
\* the second has then registered and broadcast a command reply, which has
\* gone through the registry
C14_Witness ==
    \E s, t \in Sessions :
        /\ s # t
        /\ username[s] = username[t]
        /\ rpc[s] = "done" /\ popCount[s] = 1
        /\ FanOutDone(t)
        /\ bcMsg[t].kind = "cmd"
        /\ Count(bcGot[t], s) = 0

\* session s registered under its fallback name (its first frame carried a
\* username that is empty after strip) and its reader thread is not over
OpenUnderFallback(s) ==
    Registered(s) /\ rpc[s] # "done" /\ username[s] = FallbackName(s)

\* C15 as claimed: two sessions that are open at the same time and both sent
\* an empty username are registered under different fallback names, and as
\* long as neither has started its teardown each holds its own entry.
C15_FallbackUnique ==
    \A s, t \in Sessions :
        (s # t /\ OpenUnderFallback(s) /\ OpenUnderFallback(t)) =>
            /\ username[s] # username[t]
            /\ (leaveCount[s] = 0 /\ leaveCount[t] = 0) =>
                   (Get(clients, username[s]) = s /\ Get(clients, username[t]) = t)

\* the write side of s yields a message in this step
Emits(s) == Len(queue'[s]) < Len(queue[s])

\* C16: with every _broadcast call ranked by the order in which the calls
\* entered the lock (a call that returned before another was made has the
\* smaller rank), each queue holds its messages in the order of the ranks,
\* all of them later than the last message its write side yielded; no queue
\* holds a message of a call later than the one in progress; any two queues
\* hold the messages they have in common in the same order (of two common
\* messages the later one of one queue is never the earlier one of the
\* other); a put appends at
\* the end of the queue, and the write side yields the head of its queue,
\* removes it, and so yields the messages in the order of the ranks, each
\* once.
C16_DeliveryOrder ==
    /\ [](/\ \A s \in Sessions :
                /\ Len(qid[s]) = Len(queue[s])
                /\ \A i \in 1 .. Len(qid[s]) - 1 : qid[s][i] < qid[s][i + 1]
                /\ \A i \in 1 .. Len(qid[s]) :
                       /\ qid[s][i] > lastSent[s]
                       /\ qid[s][i] <= nBc
                       /\ \A c \in Sessions :
                              rpc[c] = "bc_loop" => qid[s][i] <= bcId[c]
          /\ \A s, t \in Sessions :
                s < t =>
                    \A i \in 1 .. Len(qid[s]) :
                        \A k \in 1 .. Len(qid[t]) :
                            qid[s][i] = qid[t][k] =>
                                /\ queue[s][i] = queue[t][k]
                                /\ \A j \in i + 1 .. Len(qid[s]) :
                                       \A l \in 1 .. k - 1 :
                                           qid[s][j] # qid[t][l]
          /\ \A c \in Sessions : rpc[c] = "bc_loop" => bcId[c] = nBc)
    /\ [][\A s \in Sessions :
            /\ Emits(s) =>
                   /\ queue'[s] = Tail(queue[s])
                   /\ lastSent'[s] = Head(qid[s])
                   /\ lastSent'[s] > lastSent[s]
            /\ Enqueued(s) =>
                   /\ Len(queue'[s]) = Len(queue[s]) + 1
                   /\ SubSeq(queue'[s], 1, Len(queue[s])) = queue[s]
                   /\ \E c \in Sessions :
                          /\ rpc[c] = "bc_loop"
                          /\ queue'[s][Len(queue'[s])] = bcMsg[c]
                          /\ qid'[s][Len(qid'[s])] = bcId[c]
            /\ ~Emits(s) => lastSent'[s] = lastSent[s]]_vars

\* C16 witness: the replies to the commands of two sessions are in both
\* queues, in the same order, after each write side has yielded a message
C16_Witness ==
    \E s, t \in Sessions :
        /\ s # t
        /\ lastSent[s] > 0 /\ lastSent[t] > 0
        /\ Len(queue[s]) = 2 /\ Len(queue[t]) = 2
        /\ qid[s] = qid[t]
        /\ queue[s][1].kind = "cmd" /\ queue[s][2].kind = "cmd"
        /\ queue[s][1].who = username[t]
        /\ queue[s][2].who = username[s]
        /\ username[s] # username[t]

\* the inbound stream of c ends in this step before any frame arrived
EndsUnregistered(c) ==
    rpc[c] = "recv" /\ username[c] = NoName /\ rpc'[c] \notin {"recv", "reg"}

\* C17: a session whose inbound stream ends, by exhaustion or by an RPC
\* error, before any frame arrived has no name and no registry entry; the
\* end of its reader thread is one step that issues no broadcast, takes no
\* lock and changes neither the registry nor any queue, and the session never
\* issues a leave notice or a removal.
C17_UnregisteredTeardown ==
    /\ [](\A c \in Sessions :
            /\ username[c] = NoName =>
                   /\ ~HandleIn(clients, c)
                   /\ rpc[c] \in {"none", "recv", "done"}
                   /\ bcMsg[c] = NoMsg
                   /\ joinCount[c] = 0 /\ leaveCount[c] = 0 /\ popCount[c] = 0
            /\ (rpc[c] = "done" /\ joinCount[c] = 0) => username[c] = NoName)
    /\ [][\A c \in Sessions :
            EndsUnregistered(c) =>
                /\ rpc'[c] = "done"
                /\ username'[c] = NoName
                /\ clients' = clients /\ queue' = queue /\ lock' = lock
                /\ bcMsg' = bcMsg /\ nBc' = nBc
                /\ leaveCount' = leaveCount /\ popCount' = popCount]_vars

\* C17 witness: the stream of the second session ended with an RPC error
\* before its first frame, while the first session stays registered with a
\* message waiting in its queue
C17_Witness ==
    \E c, s \in Sessions :
        /\ c # s
        /\ rpc[c] = "done" /\ username[c] = NoName /\ ~active[c]
        /\ Get(clients, username[s]) = s
        /\ rpc[s] = "recv"
        /\ queue[s] # <<>>

\* the kinds of message the text branch (lines 75-80) broadcasts
TextKinds == {"chat", "cmd", "cmderr", "unknown"}

\* the reader of c takes the first frame of its connection in this step
TakesFirstFrame(c) == username[c] = NoName /\ username'[c] # NoName

\* C18: the first frame the client's generator yields is the registration
\* frame (its username and emoji, empty text), the only frame with an empty
\* text it ever yields, and nothing is queued for sending before it was
\* yielded; the frames already yielded never change.  On the server the step
\* that takes the first frame of a connection, whatever its text, only
\* registers: it relays nothing and dispatches no command; a session makes a
\* broadcast of the text branch only once it is registered, the peer that
\* sends a single frame never does, and every text the client's session has
\* handled is that of a frame the client yielded after the first.
C18_FirstFrameRegisters ==
    /\ [](/\ sent # <<>> => sent[1] = RegFrame
          /\ \A i \in 2 .. Len(sent) :
                sent[i].kind = "msg" /\ sent[i].text # <<>>
          /\ (outq # <<>> \/ nTyped > 0) => (connected /\ Len(sent) >= 1)
          /\ Consumed <= Len(sent)
          /\ \A c \in Sessions :
                bcMsg[c].kind \in TextKinds => Registered(c)
          /\ bcMsg[PeerSession].kind \notin TextKinds
          /\ Registered(ClientSession) =>
                username[ClientSession] = ClientUsername
          /\ bcMsg[ClientSession].kind \in TextKinds =>
                \E k \in 2 .. Len(sent) :
                    sent[k].text = bcFrame[ClientSession])
    /\ [][/\ \A c \in Sessions :
              TakesFirstFrame(c) =>
                  /\ rpc'[c] = "reg"
                  /\ nFrames' = nFrames /\ queue' = queue
                  /\ bcMsg' = bcMsg /\ bcFrame' = bcFrame
          /\ Len(sent') >= Len(sent)
          /\ SubSeq(sent', 1, Len(sent)) = sent]_vars

\* C18 witness: the client has yielded its registration frame and then a chat
\* line, its session relays that line to the peer, which registered with a
\* first frame of its own
C18_Witness ==
    /\ Len(sent) = 2
    /\ sent[1] = RegFrame
    /\ sent[2].text = ChatFrame
    /\ FanOutDone(ClientSession)
    /\ bcMsg[ClientSession].kind = "chat"
    /\ bcGot[ClientSession] = << PeerSession >>

\* 2^attempt for attempt = 0 .. 4, written out
Doubling == << 1, 2, 4, 8, 16 >>

\* C19: connect makes at most 5 attempts and sleeps only after a failed one,
\* the i-th time for reconnect_delay * 2^(i-1); once it has returned, it
\* returned True exactly when its last attempt got the channel ready, having
\* failed and slept before each earlier one; it returned False after one
\* failed attempt and no sleep when auto_reconnect is false, and after five
\* failed attempts, each followed by its sleep, when it is true; and every
\* call returns.
C19_ConnectTerminates ==
    /\ [](/\ nTried <= 5
          /\ Len(slept) <= 5
          /\ Len(slept) <= nTried
          /\ \A i \in 1 .. Len(slept) : slept[i] = recDelay * Doubling[i]
          /\ kresult = "none" <=> kpc # "ret"
          /\ kresult = "True" =>
                /\ nTried = Len(slept) + 1
                /\ nTried = 1 \/ autoRec
          /\ kresult = "False" =>
                IF autoRec
                THEN nTried = 5 /\ Len(slept) = 5
                ELSE nTried = 1 /\ slept = <<>>)
    /\ <>(kpc = "ret")

\* C19 witness: with auto_reconnect and a delay of 2 all five attempts
\* failed and connect returned False after sleeping 2, 4, 8, 16 and 32
C19_Witness ==
    /\ kpc = "ret"
    /\ kresult = "False"
    /\ autoRec
    /\ nTried = 5
    /\ slept = << 2, 4, 8, 16, 32 >>

====
